---- MODULE Spec2Model ----
(***************************************************************************)
(* Model of the Obsidian Date Highlighter plugin (src/main.ts).            *)
(*                                                                         *)
(* src/main.ts holds two listings of the plugin: lines 1-334 (free         *)
(* functions) and lines 336-695 (the same logic as DateService and         *)
(* private methods).  They behave alike; the definitions below follow the  *)
(* second listing and name the first where it differs.                     *)
(*                                                                         *)
(* Texts (document text, file paths, matched date strings, text typed into *)
(* a settings field) are sequences of one-character strings.  Offsets are  *)
(* 0-based, as in the source.  Colours and tooltips are strings.           *)
(***************************************************************************)
EXTENDS Integers, Sequences, FiniteSets, TLC

VARIABLES
    settings,       \* plugin.settings (DateHighlighterSettings)
    clock,          \* the wall clock read by moment(), in ticks
    lastIndex,      \* lastIndex of each of the four /g patterns of DATE_FORMATS
    doc,            \* view.state.doc of the editor
    visibleRanges,  \* view.visibleRanges of the editor
    decorations,    \* the view plugin's this.decorations
    plugin,         \* the view plugin instance: "none", "active" or "crashed",
                    \* or "unloaded" once the plugin is
    files,          \* app.vault.getFiles(), as paths
    styleRules,     \* styleElement.textContent, one entry per emitted rule
    call,           \* the last direct call of a pure function and its result
    contentPass,    \* record of the last buildDecorations call
    filesPass,      \* record of the last updateFileStyles call
    saveData        \* the saveSettings calls waiting on saveData, and how the
                    \* last saveData promise was settled

vars == <<settings, clock, lastIndex, doc, visibleRanges, decorations, plugin,
          files, styleRules, call, contentPass, filesPass, saveData>>

(***************************************************************************)
(* Bounds of the model.                                                    *)
(***************************************************************************)
\* Resolution of the clock: ticks per calendar day.
TicksPerDay == 2
\* The clock runs from tick 0 (EpochDate, 00:00) to MaxClock.
MaxClock == 3
\* How many times the clock may advance while one pass is running.
MaxTicksPerPass == 1
\* How many saveSettings calls may wait on saveData at once.
MaxSaving == 1

(***************************************************************************)
(* Characters.                                                             *)
(***************************************************************************)
Digits == <<"0", "1", "2", "3", "4", "5", "6", "7", "8", "9">>

IsDigit(c) == c \in {"0", "1", "2", "3", "4", "5", "6", "7", "8", "9"}

DigitVal(c) == (CHOOSE i \in 1..Len(Digits) : Digits[i] = c) - 1

\* The 0-based slice text.slice(from, to).
Slice(text, from, to) ==
    IF to <= from THEN <<>> ELSE SubSeq(text, from + 1, to)

Min(S) == CHOOSE x \in S : \A y \in S : x <= y

(***************************************************************************)
(* DATE_FORMATS: the four patterns, "d" standing for \d, and the four      *)
(* moment formats.                                                         *)
(***************************************************************************)
DATE_FORMATS ==
    << <<"d", "d", "d", "d", "-", "d", "d", "-", "d", "d">>,    \* YYYY-MM-DD
       <<"d", "d", "/", "d", "d", "/", "d", "d", "d", "d">>,    \* MM/DD/YYYY
       <<"d", "d", "-", "d", "d", "-", "d", "d", "d", "d">>,    \* DD-MM-YYYY
       <<"d", "d", "d", "d", ".", "d", "d", ".", "d", "d">> >>  \* YYYY.MM.DD

momentFormats ==
    << <<"Y", "Y", "Y", "Y", "-", "M", "M", "-", "D", "D">>,
       <<"M", "M", "/", "D", "D", "/", "Y", "Y", "Y", "Y">>,
       <<"D", "D", "-", "M", "M", "-", "Y", "Y", "Y", "Y">>,
       <<"Y", "Y", "Y", "Y", ".", "M", "M", ".", "D", "D">> >>

Patterns == 1..Len(DATE_FORMATS)

(***************************************************************************)
(* The calendar of moment: proleptic Gregorian.                            *)
(***************************************************************************)
isLeapYear(year) ==
    (year % 4 = 0 /\ year % 100 # 0) \/ year % 400 = 0

daysInMonth(year, month) ==
    IF month = 2 THEN (IF isLeapYear(year) THEN 29 ELSE 28)
    ELSE IF month \in {4, 6, 9, 11} THEN 30 ELSE 31

\* Days from 1970-01-01 to the civil date year-month-day.
DayNumber(year, month, day) ==
    LET y   == IF month <= 2 THEN year - 1 ELSE year
        era == y \div 400
        yoe == y - era * 400
        mp  == IF month > 2 THEN month - 3 ELSE month + 9
        doy == (153 * mp + 2) \div 5 + day - 1
        doe == yoe * 365 + yoe \div 4 - yoe \div 100 + doy
    IN  era * 146097 + doe - 719468

(***************************************************************************)
(* moment(dateStr, format, true): strict parsing.  Every token of the      *)
(* format must consume exactly its characters (YYYY four digits, MM and DD *)
(* two digits, a separator itself), nothing may be left over, and the      *)
(* month and the day must exist in the calendar.                           *)
(***************************************************************************)
NoDate == [valid |-> FALSE, year |-> 0, month |-> 0, day |-> 0]

\* The number written by the characters of dateStr at the places where the
\* format has the token character tok.
RECURSIVE FieldValue(_, _, _, _, _)
FieldValue(dateStr, format, tok, k, acc) ==
    IF k > Len(format) THEN acc
    ELSE IF format[k] = tok
         THEN FieldValue(dateStr, format, tok, k + 1, acc * 10 + DigitVal(dateStr[k]))
         ELSE FieldValue(dateStr, format, tok, k + 1, acc)

momentStrict(dateStr, format) ==
    IF /\ Len(dateStr) = Len(format)
       /\ \A k \in 1..Len(format) :
             IF format[k] \in {"Y", "M", "D"} THEN IsDigit(dateStr[k])
             ELSE dateStr[k] = format[k]
    THEN LET year  == FieldValue(dateStr, format, "Y", 1, 0)
             month == FieldValue(dateStr, format, "M", 1, 0)
             day   == FieldValue(dateStr, format, "D", 1, 0)
         IN  IF /\ month >= 1 /\ month <= 12
                /\ day >= 1 /\ day <= daysInMonth(year, month)
             THEN [valid |-> TRUE, year |-> year, month |-> month, day |-> day]
             ELSE NoDate
    ELSE NoDate

\* Mutant of parseDate: the isValid() test is dropped, so the first format whose
\* shape fits yields a date although its month or day does not exist.
parseDate_unchecked(dateStr) ==
    LET fits == {f \in 1..Len(momentFormats) :
                    /\ Len(dateStr) = Len(momentFormats[f])
                    /\ \A k \in 1..Len(dateStr) :
                          IF momentFormats[f][k] \in {"Y", "M", "D"} THEN IsDigit(dateStr[k])
                          ELSE dateStr[k] = momentFormats[f][k]}
    IN  IF fits = {} THEN NoDate
        ELSE LET format == momentFormats[Min(fits)]
             IN  [valid |-> TRUE,
                  year  |-> FieldValue(dateStr, format, "Y", 1, 0),
                  month |-> FieldValue(dateStr, format, "M", 1, 0),
                  day   |-> FieldValue(dateStr, format, "D", 1, 0)]

\* parseDate: the first format, in declaration order, that parses; else null.
RECURSIVE parseDateFrom(_, _)
parseDateFrom(dateStr, f) ==
    IF f > Len(momentFormats) THEN NoDate
    ELSE LET parsed == momentStrict(dateStr, momentFormats[f])
         IN  IF parsed.valid THEN parsed ELSE parseDateFrom(dateStr, f + 1)

parseDate(dateStr) == parseDateFrom(dateStr, 1)

(***************************************************************************)
(* moment() and now.diff(date, 'days').                                    *)
(***************************************************************************)
\* The calendar day on which the clock starts (tick 0 is its midnight).
EpochDate == [valid |-> TRUE, year |-> 2024, month |-> 3, day |-> 30]

\* Ticks from 1970-01-01 00:00 to the midnight that starts the date.
DateTicks(date) == DayNumber(date.year, date.month, date.day) * TicksPerDay

\* Ticks from 1970-01-01 00:00 to the instant the clock shows at tick now.
NowTicks(now) == DateTicks(EpochDate) + now

\* absFloor: rounding towards zero.
absFloor(num, den) ==
    IF num >= 0 THEN num \div den ELSE -((-num) \div den)

\* Mutant of diffDays: the difference is rounded down instead of towards zero.
diffDays_floor(now, date) == (NowTicks(now) - DateTicks(date)) \div TicksPerDay

\* now.diff(date, 'days'): whole days from date to now, truncated.
diffDays(now, date) == absFloor(NowTicks(now) - DateTicks(date), TicksPerDay)

abs(n) == IF n < 0 THEN -n ELSE n

(***************************************************************************)
(* DateService.generateTooltip / generateDateTooltip, with the instant     *)
(* that its moment() call returns.                                         *)
(***************************************************************************)
generateTooltip(dateStr, now) ==
    LET date == parseDate(dateStr)
    IN  IF ~date.valid THEN ""
        ELSE LET daysDiff == diffDays(now, date)
                 daysText == abs(daysDiff)
             IN  IF daysDiff = 0 THEN "Today"
                 ELSE IF daysDiff = 1 THEN "Yesterday"
                 ELSE IF daysDiff = -1 THEN "Tomorrow"
                 ELSE IF daysDiff > 0 THEN ToString(daysText) \o " days ago"
                 ELSE "In " \o ToString(daysText) \o " days"

(***************************************************************************)
(* DateService.getHighlightColor / getHighlightColor, with the instant     *)
(* that its moment() call returns.                                         *)
(***************************************************************************)
\* Mutant of getHighlightColor: the Recent boundary is exclusive.
getHighlightColor_exclusive(dateStr, s, now) ==
    LET date == parseDate(dateStr)
    IN  IF ~date.valid THEN [bg |-> s.oldColor, text |-> s.textColor]
        ELSE LET daysSince == diffDays(now, date)
             IN  IF daysSince < s.recentDays
                 THEN [bg |-> s.recentColor, text |-> s.textColor]
                 ELSE IF daysSince <= s.intermediateDays
                 THEN [bg |-> s.intermediateColor, text |-> s.textColor]
                 ELSE [bg |-> s.oldColor, text |-> s.textColor]

getHighlightColor(dateStr, s, now) ==
    LET date == parseDate(dateStr)
    IN  IF ~date.valid THEN [bg |-> s.oldColor, text |-> s.textColor]
        ELSE LET daysSince == diffDays(now, date)
             IN  IF daysSince <= s.recentDays
                 THEN [bg |-> s.recentColor, text |-> s.textColor]
                 ELSE IF daysSince <= s.intermediateDays
                 THEN [bg |-> s.intermediateColor, text |-> s.textColor]
                 ELSE [bg |-> s.oldColor, text |-> s.textColor]

(***************************************************************************)
(* DEFAULT_SETTINGS.                                                       *)
(***************************************************************************)
DEFAULT_SETTINGS ==
    [ highlightInlineContent |-> TRUE,
      highlightFilenames     |-> TRUE,
      recentColor            |-> "#a4e7c3",
      intermediateColor      |-> "#e7dba4",
      oldColor               |-> "#e7a4a4",
      recentDays             |-> 14,
      intermediateDays       |-> 30,
      textColor              |-> "#000000" ]

(***************************************************************************)
(* Pattern matching.  MatchesAt: the pattern matches the text at the       *)
(* 0-based offset index.                                                   *)
(***************************************************************************)
MatchesAt(regex, text, index) ==
    /\ index >= 0
    /\ index + Len(regex) <= Len(text)
    /\ \A k \in 1..Len(regex) :
          IF regex[k] = "d" THEN IsDigit(text[index + k])
          ELSE text[index + k] = regex[k]

\* Mutant of RegexExec: a match moves lastIndex one character on, not past it.
RegexExec_overlapping(regex, text, li) ==
    LET found == {i \in li..(Len(text) - Len(regex)) : MatchesAt(regex, text, i)}
    IN  IF found = {} THEN [index |-> -1, lastIndex |-> 0]
        ELSE [index |-> Min(found), lastIndex |-> Min(found) + 1]

\* regex.exec(text) of a /g pattern whose lastIndex is li: the leftmost match
\* at or after li.  A match moves lastIndex past it; a failure returns null
\* (index -1) and resets lastIndex to 0.
RegexExec(regex, text, li) ==
    LET found == {i \in li..(Len(text) - Len(regex)) : MatchesAt(regex, text, i)}
    IN  IF found = {} THEN [index |-> -1, lastIndex |-> 0]
        ELSE [index |-> Min(found), lastIndex |-> Min(found) + Len(regex)]

\* text.match(regex) of a /g pattern: lastIndex is set to 0 and exec is
\* repeated until it fails; the offsets of the matches, left to right.
RECURSIVE MatchFrom(_, _, _)
MatchFrom(regex, text, li) ==
    LET m == RegexExec(regex, text, li)
    IN  IF m.index = -1 THEN <<>>
        ELSE <<m.index>> \o MatchFrom(regex, text, m.lastIndex)

StringMatch(regex, text) == MatchFrom(regex, text, 0)

\* The matches findDatesInText collects, each with its pattern and offsets:
\* pattern by pattern in declaration order, each pattern's matches left to
\* right.
RECURSIVE MatchesFrom(_, _)
MatchesFrom(text, r) ==
    IF r > Len(DATE_FORMATS) THEN <<>>
    ELSE LET found == StringMatch(DATE_FORMATS[r], text)
         IN  [i \in 1..Len(found) |->
                 [pattern |-> r, from |-> found[i],
                  to |-> found[i] + Len(DATE_FORMATS[r])]]
             \o MatchesFrom(text, r + 1)

findMatches(text) == MatchesFrom(text, 1)

\* Mutant of findDatesInText: the patterns are tried in the opposite order.
findDatesInText_reversed(text) ==
    LET ms == findMatches(text)
    IN  [i \in 1..Len(ms) |->
            Slice(text, ms[Len(ms) + 1 - i].from, ms[Len(ms) + 1 - i].to)]

\* findDatesInText: the matched substrings, in that order.
findDatesInText(text) ==
    LET ms == findMatches(text)
    IN  [i \in 1..Len(ms) |-> Slice(text, ms[i].from, ms[i].to)]

(***************************************************************************)
(* buildDecorations.                                                       *)
(*                                                                         *)
(* Every getHighlightColor and generateTooltip call reads the clock with   *)
(* its own moment().  The clock may advance between two reads: ticks is    *)
(* the set of read numbers (1, 2, ... in the order of the pass) just       *)
(* before which the clock advanced by one tick.                            *)
(***************************************************************************)
ReadClock(start, ticks, n) == start + Cardinality({k \in ticks : k <= n})

\* The state of a running pass: the patterns' lastIndex, the ranges added to
\* the RangeSetBuilder and the start of the last one, the instants read, the
\* number of exec calls made, and whether builder.add has thrown.
StartPass(li) ==
    [li |-> li, decos |-> <<>>, lastFrom |-> -1, reads |-> <<>>,
     scans |-> 0, status |-> "ok"]

\* The while loop of one pattern over the text of one visible range.
\* getHighlightColor and generateTooltip each read the clock once, and only
\* after parseDate has given a date.  RangeSetBuilder.add throws when a range
\* starts before the one added last.
RECURSIVE ScanPattern(_, _, _, _, _, _, _)
ScanPattern(r, text, from, s, st, start, ticks) ==
    LET match == RegexExec(DATE_FORMATS[r], text, st.li[r])
        after == [st EXCEPT !.li[r] = match.lastIndex, !.scans = @ + 1]
    IN  IF match.index = -1 THEN after
        ELSE LET dateStr  == Slice(text, match.index, match.index + Len(DATE_FORMATS[r]))
                 startPos == from + match.index
                 endPos   == startPos + Len(dateStr)
                 now1     == ReadClock(start, ticks, Len(st.reads) + 1)
                 colors   == getHighlightColor(dateStr, s, now1)
                 now2     == ReadClock(start, ticks, Len(st.reads) + 2)
                 tooltip  == generateTooltip(dateStr, now2)
                 read     == IF parseDate(dateStr) = NoDate THEN after
                             ELSE [after EXCEPT !.reads = @ \o <<now1, now2>>]
             IN  IF startPos < st.lastFrom
                 THEN [read EXCEPT !.status = "error"]
                 ELSE ScanPattern(r, text, from, s,
                          [read EXCEPT
                              !.decos = Append(@, [from |-> startPos, to |-> endPos,
                                                   bg |-> colors.bg, text |-> colors.text,
                                                   title |-> tooltip]),
                              !.lastFrom = startPos],
                          start, ticks)

\* DATE_FORMATS.patterns.forEach over one visible range; an exception ends it.
RECURSIVE ScanPatterns(_, _, _, _, _, _, _)
ScanPatterns(r, text, from, s, st, start, ticks) ==
    IF r > Len(DATE_FORMATS) \/ st.status = "error" THEN st
    ELSE ScanPatterns(r + 1, text, from, s,
                      ScanPattern(r, text, from, s, st, start, ticks),
                      start, ticks)

\* The loop over view.visibleRanges.
RECURSIVE ScanRanges(_, _, _, _, _, _, _)
ScanRanges(k, d, ranges, s, st, start, ticks) ==
    IF k > Len(ranges) \/ st.status = "error" THEN st
    ELSE ScanRanges(k + 1, d, ranges, s,
                    ScanPatterns(1, Slice(d, ranges[k].from, ranges[k].to),
                                 ranges[k].from, s, st, start, ticks),
                    start, ticks)

\* Mutant of buildDecorations: the highlightInlineContent test is missing.
buildDecorations_always(d, ranges, s, li, start, ticks) ==
    ScanRanges(1, d, ranges, s, StartPass(li), start, ticks)

buildDecorations(d, ranges, s, li, start, ticks) ==
    IF ~s.highlightInlineContent THEN StartPass(li)
    ELSE ScanRanges(1, d, ranges, s, StartPass(li), start, ticks)

(***************************************************************************)
(* CSS.escape(file.path): the CSSOM serialisation of an identifier.  A     *)
(* path holds no U+0000.                                                   *)
(***************************************************************************)
Letters ==
    {"a", "b", "c", "d", "e", "f", "g", "h", "i", "j", "k", "l", "m",
     "n", "o", "p", "q", "r", "s", "t", "u", "v", "w", "x", "y", "z",
     "A", "B", "C", "D", "E", "F", "G", "H", "I", "J", "K", "L", "M",
     "N", "O", "P", "Q", "R", "S", "T", "U", "V", "W", "X", "Y", "Z"}

HexDigits ==
    <<"0", "1", "2", "3", "4", "5", "6", "7", "8", "9", "a", "b", "c", "d", "e", "f">>
HexUpper ==
    <<"0", "1", "2", "3", "4", "5", "6", "7", "8", "9", "A", "B", "C", "D", "E", "F">>

\* The control characters U+0001 to U+001F, in order, and then U+007F.
ControlChars ==
    << "", "", "", "", "", "", "", "",
      "\t", "\n", "", "\f", "\r", "", "", "",
      "", "", "", "", "", "", "", "",
      "", "", "", "", "", "", "", "" >>

\* The code point of a control character.
ControlCode(c) ==
    LET i == CHOOSE j \in 1..Len(ControlChars) : ControlChars[j] = c
    IN  IF i = Len(ControlChars) THEN 127 ELSE i

\* A code point below 256 in hexadecimal, without leading zeros.
HexText(n) ==
    IF n < 16 THEN <<HexDigits[n + 1]>>
    ELSE <<HexDigits[(n \div 16) + 1], HexDigits[(n % 16) + 1]>>

\* The printable ASCII characters other than letters, digits, '-' and '_'
\* (all but the grave accent, which a string of this module cannot hold).
AsciiPunctuation ==
    {" ", "!", "\"", "#", "$", "%", "&", "'", "(", ")", "*", "+", ",", ".", "/",
     ":", ";", "<", "=", ">", "?", "@", "[", "\\", "]", "^", "{", "|", "}", "~"}

\* Control characters are escaped as code points, as is a digit in the first
\* place or after a leading '-'; the other ASCII punctuation gets a backslash;
\* letters, digits, '-', '_' and everything from U+0080 up stay as they are.
RECURSIVE CSSescapeFrom(_, _)
CSSescapeFrom(path, k) ==
    IF k > Len(path) THEN <<>>
    ELSE LET c == path[k]
             out == IF \E j \in 1..Len(ControlChars) : ControlChars[j] = c
                    THEN <<"\\">> \o HexText(ControlCode(c)) \o <<" ">>
                    ELSE IF IsDigit(c) /\ (k = 1 \/ (k = 2 /\ path[1] = "-"))
                    THEN <<"\\", "3", c, " ">>
                    ELSE IF c = "-" /\ k = 1 /\ Len(path) = 1
                    THEN <<"\\", c>>
                    ELSE IF c \in AsciiPunctuation
                    THEN <<"\\", c>>
                    ELSE <<c>>
         IN  out \o CSSescapeFrom(path, k + 1)

CSSescape(path) == CSSescapeFrom(path, 1)

(***************************************************************************)
(* updateFileStyles / generateFileStyles.  ticks is as in buildDecorations:*)
(* each getHighlightColor call whose date parses reads the clock itself.   *)
(***************************************************************************)
ZeroIndex == [r \in Patterns |-> 0]

\* The map over app.vault.getFiles(): one rule for each file whose path holds
\* a date, coloured by the first entry of findDatesInText (the first listing
\* searches file.name instead of file.path).  text.match leaves every
\* pattern's lastIndex at 0.
RECURSIVE generateFileStyles(_, _, _, _, _, _)
generateFileStyles(k, fs, s, st, start, ticks) ==
    IF k > Len(fs) THEN st
    ELSE LET dates   == findDatesInText(fs[k])
             scanned == [st EXCEPT !.li = ZeroIndex, !.scans = @ + 1]
         IN  IF Len(dates) = 0
             THEN generateFileStyles(k + 1, fs, s, scanned, start, ticks)
             ELSE LET now    == ReadClock(start, ticks, Len(st.reads) + 1)
                      colors == getHighlightColor(dates[1], s, now)
                  IN  generateFileStyles(k + 1, fs, s,
                          [scanned EXCEPT
                              !.reads = IF parseDate(dates[1]) = NoDate THEN @
                                        ELSE Append(@, now),
                              !.decos = Append(@, [path |-> CSSescape(fs[k]),
                                                   bg |-> colors.bg,
                                                   text |-> colors.text])],
                          start, ticks)

updateFileStyles(fs, s, li, start, ticks) ==
    IF ~s.highlightFilenames THEN StartPass(li)
    ELSE generateFileStyles(1, fs, s, StartPass(li), start, ticks)

(***************************************************************************)
(* parseInt(value) of the text of a settings field.                        *)
(***************************************************************************)

\* The value of c as a digit in the radix, or -1.
RadixDigit(c, radix) ==
    LET hit == {i \in 1..radix : HexDigits[i] = c \/ HexUpper[i] = c}
    IN  IF hit = {} THEN -1 ELSE (CHOOSE i \in hit : TRUE) - 1

\* White space for parseInt: space, tab, line feed, form feed, carriage
\* return, vertical tab, no-break space, the byte order mark and the ogham
\* space mark.
WhiteSpace == {" ", "\t", "\n", "\f", "\r", "", " ", "﻿", " "}

RECURSIVE SkipSpaces(_)
SkipSpaces(value) ==
    IF Len(value) > 0 /\ value[1] \in WhiteSpace THEN SkipSpaces(Tail(value)) ELSE value

\* The longest prefix of digits, as [n |-> how many, value |-> their number].
RECURSIVE ParseDigits(_, _, _)
ParseDigits(value, radix, acc) ==
    IF Len(value) = 0 \/ RadixDigit(value[1], radix) = -1 THEN acc
    ELSE ParseDigits(Tail(value), radix,
                     [n |-> acc.n + 1,
                      value |-> acc.value * radix + RadixDigit(value[1], radix)])

parseInt(value) ==
    LET trimmed  == SkipSpaces(value)
        negative == Len(trimmed) > 0 /\ trimmed[1] = "-"
        unsigned == IF Len(trimmed) > 0 /\ trimmed[1] \in {"-", "+"}
                    THEN Tail(trimmed) ELSE trimmed
        hex      == Len(unsigned) >= 2 /\ unsigned[1] = "0" /\ unsigned[2] \in {"x", "X"}
        digits   == IF hex THEN ParseDigits(Tail(Tail(unsigned)), 16, [n |-> 0, value |-> 0])
                    ELSE ParseDigits(unsigned, 10, [n |-> 0, value |-> 0])
    IN  IF digits.n = 0 THEN [nan |-> TRUE, value |-> 0]
        ELSE [nan |-> FALSE, value |-> IF negative THEN -digits.value ELSE digits.value]

(***************************************************************************)
(* Inputs: the texts, file listings, field texts and colours the           *)
(* environment supplies.                                                   *)
(***************************************************************************)
Pad2(n) == <<Digits[((n \div 10) % 10) + 1], Digits[(n % 10) + 1]>>

Pad4(n) == Pad2(n \div 100) \o Pad2(n % 100)

\* The text of year-month-day in the shape of pattern f (the numbers need not
\* form a date of the calendar).
DateText(f, year, month, day) ==
    CASE f = 1 -> Pad4(year) \o <<"-">> \o Pad2(month) \o <<"-">> \o Pad2(day)
      [] f = 2 -> Pad2(month) \o <<"/">> \o Pad2(day) \o <<"/">> \o Pad4(year)
      [] f = 3 -> Pad2(day) \o <<"-">> \o Pad2(month) \o <<"-">> \o Pad4(year)
      [] f = 4 -> Pad4(year) \o <<".">> \o Pad2(month) \o <<".">> \o Pad2(day)

\* The visible ranges of a document: all of it, its first half, or both halves.
Viewports(d) ==
    LET h == Len(d) \div 2
    IN  { <<[from |-> 0, to |-> Len(d)]>>,
          <<[from |-> 0, to |-> h]>>,
          <<[from |-> 0, to |-> h], [from |-> h, to |-> Len(d)]>> }

\* Texts typed into the two period fields.
FieldTexts ==
    { <<"1">>, <<"3", "0">>, <<"0">>, <<"-", "5">>, <<"z">>, <<"4", "0", "z">> }

ColorKeys == {"recentColor", "intermediateColor", "oldColor", "textColor"}

Palette == {"#ff0000"}

\* The sets of read numbers before which the clock ticks, for a pass that
\* reads the clock n times starting at tick start.
TickChoices(n, start) ==
    {T \in SUBSET (1..n) :
        Cardinality(T) <= MaxTicksPerPass /\ start + Cardinality(T) <= MaxClock}

(***************************************************************************)
(* The state after onload on an empty vault with no editor open: the       *)
(* default settings, and one updateFileStyles call on the empty listing.   *)
(***************************************************************************)
NoCall ==
    [fn |-> "none", arg |-> <<>>, now |-> 0, bg |-> "", text |-> "",
     tooltip |-> "", matches |-> <<>>, dates |-> <<>>]

NoSave == [pending |-> 0, settled |-> "none"]

NoPass ==
    [ran |-> FALSE, doc |-> <<>>, ranges |-> <<>>, files |-> <<>>,
     settings |-> DEFAULT_SETTINGS, before |-> ZeroIndex, start |-> 0,
     reads |-> <<>>, status |-> "ok", result |-> <<>>, scans |-> 0]

Init ==
    /\ settings = DEFAULT_SETTINGS
    /\ clock = 0
    /\ lastIndex = ZeroIndex
    /\ doc = <<>>
    /\ visibleRanges = <<>>
    /\ decorations = <<>>
    /\ plugin = "none"
    /\ files = <<>>
    /\ styleRules = <<>>
    /\ call = NoCall
    /\ contentPass = NoPass
    /\ filesPass = [NoPass EXCEPT !.ran = TRUE]
    /\ saveData = NoSave

(***************************************************************************)
(* The editor: the view plugin's constructor and update.                   *)
(***************************************************************************)
\* One buildDecorations call on document d with the given visible ranges.  An
\* exception leaves the view plugin crashed, without decorations; the
\* patterns keep the lastIndex they had when it was thrown.
RunBuildDecorations(d, ranges) ==
    \E still \in {buildDecorations(d, ranges, settings, lastIndex, clock, {})} :
        \E ticks \in TickChoices(Len(still.reads), clock) :
           \E r \in {IF ticks = {} THEN still
                     ELSE buildDecorations(d, ranges, settings, lastIndex, clock, ticks)} :
               /\ doc' = d
               /\ visibleRanges' = ranges
               /\ lastIndex' = r.li
               /\ clock' = clock + Cardinality(ticks)
               /\ decorations' = IF r.status = "ok" THEN r.decos ELSE <<>>
               /\ plugin' = IF r.status = "ok" THEN "active" ELSE "crashed"
               /\ contentPass' =
                     [ran |-> TRUE, doc |-> d, ranges |-> ranges, files |-> <<>>,
                      settings |-> settings, before |-> lastIndex, start |-> clock,
                      reads |-> r.reads, status |-> r.status,
                      result |-> IF r.status = "ok" THEN r.decos ELSE <<>>,
                      scans |-> r.scans]
               /\ UNCHANGED <<settings, files, styleRules, call, filesPass, saveData>>

\* constructor(view): an editor is opened on a document.
OpenEditor(d, ranges) ==
    RunBuildDecorations(d, ranges)

\* update(update) with update.docChanged; the change may leave the text as
\* it was.
DocChange(d, ranges) ==
    /\ plugin = "active"
    /\ RunBuildDecorations(d, ranges)

\* update(update) with update.viewportChanged only.
ViewportChange(ranges) ==
    /\ plugin = "active"
    /\ ranges # visibleRanges
    /\ RunBuildDecorations(doc, ranges)

(***************************************************************************)
(* The vault and the settings tab.                                         *)
(***************************************************************************)
\* One updateFileStyles call under settings s on the listing fs.
RunUpdateFileStyles(fs, s) ==
    \E still \in {updateFileStyles(fs, s, lastIndex, clock, {})} :
        \E ticks \in TickChoices(Len(still.reads), clock) :
           \E r \in {IF ticks = {} THEN still
                     ELSE updateFileStyles(fs, s, lastIndex, clock, ticks)} :
               /\ styleRules' = r.decos
               /\ lastIndex' = r.li
               /\ clock' = clock + Cardinality(ticks)
               /\ filesPass' =
                     [ran |-> TRUE, doc |-> <<>>, ranges |-> <<>>, files |-> fs,
                      settings |-> s, before |-> lastIndex, start |-> clock,
                      reads |-> r.reads, status |-> r.status, result |-> r.decos,
                      scans |-> r.scans]

\* The vault's 'rename' event, after which the listing is fs (the listing
\* it was, when a folder was renamed).
Rename(fs) ==
    /\ files' = fs
    /\ RunUpdateFileStyles(fs, settings)
    /\ UNCHANGED <<settings, doc, visibleRanges, decorations, plugin, call, contentPass, saveData>>

\* An onChange handler that has set plugin.settings to s and called
\* saveSettings, up to 'await this.saveData(this.settings)'.
saveSettings(s) ==
    /\ saveData.pending < MaxSaving
    /\ settings' = s
    /\ saveData' = [saveData EXCEPT !.pending = @ + 1]
    /\ UNCHANGED <<clock, lastIndex, doc, visibleRanges, decorations, plugin, files,
                   styleRules, call, contentPass, filesPass>>

\* saveData has resolved: saveSettings goes on with updateFileStyles, under
\* the settings of that moment, and with refreshActiveEditors, whose empty
\* transaction reaches update() with neither docChanged nor viewportChanged.
SaveDataResolved ==
    /\ saveData.pending > 0
    /\ saveData' = [pending |-> saveData.pending - 1, settled |-> "resolved"]
    /\ RunUpdateFileStyles(files, settings)
    /\ UNCHANGED <<settings, files, doc, visibleRanges, decorations, plugin, call,
                   contentPass>>

\* saveData has rejected: saveSettings ends there.
SaveDataRejected ==
    /\ saveData.pending > 0
    /\ saveData' = [pending |-> saveData.pending - 1, settled |-> "rejected"]
    /\ UNCHANGED <<settings, clock, lastIndex, doc, visibleRanges, decorations, plugin,
                   files, styleRules, call, contentPass, filesPass>>

\* onChange of the 'Highlight inline dates' toggle.
ToggleInline(value) ==
    saveSettings([settings EXCEPT !.highlightInlineContent = value])

\* onChange of the 'Highlight filenames' toggle.
ToggleFilenames(value) ==
    saveSettings([settings EXCEPT !.highlightFilenames = value])

\* onChange of the 'Recent period (days)' field.
EditRecentDays(value) ==
    LET numValue == parseInt(value)
    IN  IF ~numValue.nan /\ numValue.value > 0
        THEN saveSettings([settings EXCEPT !.recentDays = numValue.value])
        ELSE UNCHANGED vars

\* onChange of the 'Intermediate period (days)' field.
EditIntermediateDays(value) ==
    LET numValue == parseInt(value)
    IN  IF ~numValue.nan /\ numValue.value > settings.recentDays
        THEN saveSettings([settings EXCEPT !.intermediateDays = numValue.value])
        ELSE UNCHANGED vars

\* onChange of one of the four colour pickers.
PickColor(key, value) ==
    saveSettings([settings EXCEPT ![key] = value])

\* The wall clock advances.
Tick ==
    /\ clock < MaxClock
    /\ clock' = clock + 1
    /\ UNCHANGED <<settings, lastIndex, doc, visibleRanges, decorations, plugin,
                   files, styleRules, call, contentPass, filesPass, saveData>>

\* The listing of the vault changes with no 'rename' event (a file is
\* created or deleted): no handler runs.
VaultChange(fs) ==
    /\ files' = fs
    /\ UNCHANGED <<settings, clock, lastIndex, doc, visibleRanges, decorations, plugin,
                   styleRules, call, contentPass, filesPass, saveData>>

\* The document or the viewport of an editor changes while no view plugin
\* instance is running there (it has crashed, or the plugin is unloaded): no
\* code of the plugin runs.
EditorChange(d, ranges) ==
    /\ plugin \in {"crashed", "unloaded"}
    /\ doc' = d
    /\ visibleRanges' = ranges
    /\ UNCHANGED <<settings, clock, lastIndex, decorations, plugin, files, styleRules,
                   call, contentPass, filesPass, saveData>>

\* The plugin is unloaded: the style element leaves the document, keeping
\* its textContent, and the editor extension goes with its decorations; the
\* handlers are gone, but a saveSettings call waiting on saveData goes on.
Unload ==
    /\ plugin' = "unloaded"
    /\ decorations' = <<>>
    /\ UNCHANGED <<settings, clock, lastIndex, doc, visibleRanges, files, styleRules,
                   call, contentPass, filesPass, saveData>>

(***************************************************************************)
(* The plugin as a whole.                                                  *)
(***************************************************************************)
Docs ==
    { DateText(1, 2024, 3, 16),
      DateText(4, 2024, 2, 30),            \* not a date of the calendar
      DateText(2, 2024, 3, 29) \o <<" ">> \o DateText(1, 2024, 3, 16) }

Vaults ==
    { <<>>,
      << <<"n", "o", "t", "e", "s", ".", "m", "d">>,
         DateText(3, 2024, 2, 1) \o <<" ">> \o DateText(1, 2024, 3, 29) >> }

Next ==
    \/ /\ plugin # "unloaded"
       /\ \/ \E d \in Docs : \E ranges \in Viewports(d) : OpenEditor(d, ranges)
          \/ \E d \in Docs : \E ranges \in Viewports(d) : DocChange(d, ranges)
          \/ \E ranges \in Viewports(doc) : ViewportChange(ranges)
          \/ \E fs \in Vaults : Rename(fs)
          \/ \E value \in BOOLEAN : ToggleInline(value)
          \/ \E value \in BOOLEAN : ToggleFilenames(value)
          \/ \E value \in FieldTexts : EditRecentDays(value)
          \/ \E value \in FieldTexts : EditIntermediateDays(value)
          \/ \E key \in ColorKeys, value \in Palette : PickColor(key, value)
          \/ Unload
    \/ \E d \in Docs : \E ranges \in Viewports(d) : EditorChange(d, ranges)
    \/ \E fs \in Vaults : VaultChange(fs)
    \/ SaveDataResolved
    \/ SaveDataRejected
    \/ Tick

Spec == Init /\ [][Next]_vars

(***************************************************************************)
(* Specifications.  The decorations and the style sheet keep the colours   *)
(* and labels of the pass that made them, whatever the settings and the    *)
(* clock have become since, so the histories of the editor, of the vault   *)
(* and of the settings tab multiply.  Each specification below therefore   *)
(* Spec has more states than can be visited, and each specification below  *)
(* lets one part of the environment act: the classifier alone              *)
(* (SpecClassify), the settings tab (SpecSettings), the vault (SpecFiles), *)
(* the editor (SpecContent), date extraction (SpecFind), both passes under *)
(* both toggles (SpecDisabled), and the settings tab beside an editor      *)
(* (SpecRefresh).                                                          *)
(***************************************************************************)

(***************************************************************************)
(* The classifier on its own: getHighlightColor and generateTooltip        *)
(* applied to a date string (call.arg), valid or invalid, under period     *)
(* settings on both sides of the configuration invariant.                  *)
(***************************************************************************)
PeriodValues == {0, 1, 14, 30}

ClassifyYears == {2023, 2024}
ClassifyMonths == {0, 2, 3, 4, 13}
ClassifyDays == {0, 1, 15, 16, 17, 28, 29, 30, 31, 32}

DateStrings ==
    {DateText(f, y, m, d) :
        f \in Patterns, y \in ClassifyYears, m \in ClassifyMonths, d \in ClassifyDays}

InitClassify ==
    /\ settings \in {[DEFAULT_SETTINGS EXCEPT !.recentDays = r, !.intermediateDays = i] :
                        r \in PeriodValues, i \in PeriodValues}
    /\ clock = 0
    /\ lastIndex = ZeroIndex
    /\ doc = <<>>
    /\ visibleRanges = <<>>
    /\ decorations = <<>>
    /\ plugin = "none"
    /\ files = <<>>
    /\ styleRules = <<>>
    /\ call \in {[NoCall EXCEPT !.arg = dateStr] : dateStr \in DateStrings}
    /\ contentPass = NoPass
    /\ filesPass = NoPass
    /\ saveData = NoSave

\* getHighlightColor(call.arg, settings), its moment() returning the clock.
CallGetHighlightColor ==
    /\ call.fn = "none"
    /\ \E colors \in {getHighlightColor(call.arg, settings, clock)} :
          call' = [call EXCEPT !.fn = "getHighlightColor", !.now = clock,
                               !.bg = colors.bg, !.text = colors.text]
    /\ UNCHANGED <<settings, clock, lastIndex, doc, visibleRanges, decorations, plugin,
                   files, styleRules, contentPass, filesPass, saveData>>

\* generateTooltip(call.arg), its moment() returning the clock.
CallGenerateTooltip ==
    /\ call.fn = "none"
    /\ call' = [call EXCEPT !.fn = "generateTooltip", !.now = clock,
                            !.tooltip = generateTooltip(call.arg, clock)]
    /\ UNCHANGED <<settings, clock, lastIndex, doc, visibleRanges, decorations, plugin,
                   files, styleRules, contentPass, filesPass, saveData>>

NextClassify ==
    \/ CallGetHighlightColor
    \/ CallGenerateTooltip
    \/ Tick

SpecClassify == InitClassify /\ [][NextClassify]_vars

\* The whole-day difference between the instant now and the midnight that
\* starts the date, truncated: the integer q of the sign of the difference
\* with |q| whole days in it.
DaysSince(now, date) ==
    LET delta == NowTicks(now) - DateTicks(date)
        whole == CHOOSE q \in 0..abs(delta) :
                    q * TicksPerDay <= abs(delta) /\ abs(delta) < (q + 1) * TicksPerDay
    IN  IF delta < 0 THEN -whole ELSE whole

\* C1: for a date string that parses and periods with
\* 0 <= recentDays < intermediateDays, getHighlightColor returns the Recent
\* colour exactly when daysSince <= recentDays, the Intermediate colour exactly
\* when recentDays < daysSince <= intermediateDays, the Old colour exactly when
\* daysSince > intermediateDays, always with the configured textColor; a future
\* date is Recent.
C1_Bucketing ==
    (/\ call.fn = "getHighlightColor"
     /\ parseDate(call.arg).valid
     /\ 0 <= settings.recentDays
     /\ settings.recentDays < settings.intermediateDays)
    => LET daysSince == DaysSince(call.now, parseDate(call.arg))
       IN  /\ (call.bg = settings.recentColor) <=> (daysSince <= settings.recentDays)
           /\ (call.bg = settings.intermediateColor)
                 <=> (settings.recentDays < daysSince /\ daysSince <= settings.intermediateDays)
           /\ (call.bg = settings.oldColor) <=> (daysSince > settings.intermediateDays)
           /\ call.text = settings.textColor
           /\ (daysSince < 0 => call.bg = settings.recentColor)

\* C1 witness: a date exactly intermediateDays old, coloured Intermediate,
\* under the default periods.
C1_Witness ==
    /\ call.fn = "getHighlightColor"
    /\ parseDate(call.arg).valid
    /\ settings.recentDays = 14 /\ settings.intermediateDays = 30
    /\ DaysSince(call.now, parseDate(call.arg)) = settings.intermediateDays
    /\ call.bg = settings.intermediateColor

\* Whether the string has the shape of one of the four patterns.
HasDateShape(dateStr) ==
    \E r \in Patterns :
        Len(dateStr) = Len(DATE_FORMATS[r]) /\ MatchesAt(DATE_FORMATS[r], dateStr, 0)

\* Whether one of the four strict formats accepts the string.
StrictlyValid(dateStr) ==
    \E f \in 1..Len(momentFormats) : momentStrict(dateStr, momentFormats[f]).valid

\* C2: for a string with the shape of a pattern that no strict format
\* accepts, getHighlightColor returns the Old colour with the configured
\* textColor and the tooltip is the empty string.
C2_ParseFailure ==
    (HasDateShape(call.arg) /\ ~StrictlyValid(call.arg))
    => /\ call.fn = "getHighlightColor"
            => (call.bg = settings.oldColor /\ call.text = settings.textColor)
       /\ call.fn = "generateTooltip" => call.tooltip = ""

\* C2 witness: 2024-02-30, which has the shape of YYYY-MM-DD, has been
\* classified.
C2_Witness ==
    /\ call.fn = "getHighlightColor"
    /\ call.arg = DateText(1, 2024, 2, 30)
    /\ call.bg = settings.oldColor

\* C3: for a date string that parses, the tooltip is "Today", "Yesterday" or
\* "Tomorrow" for a truncated whole-day difference of 0, 1 or -1, "<n> days
\* ago" above 1 and "In <n> days" below -1, n being its absolute value.
C3_Tooltip ==
    (call.fn = "generateTooltip" /\ parseDate(call.arg).valid)
    => LET daysSince == DaysSince(call.now, parseDate(call.arg))
           n == abs(daysSince)
       IN  /\ daysSince = 0 => call.tooltip = "Today"
           /\ daysSince = 1 => call.tooltip = "Yesterday"
           /\ daysSince = -1 => call.tooltip = "Tomorrow"
           /\ daysSince > 1 => call.tooltip = ToString(n) \o " days ago"
           /\ daysSince < -1 => call.tooltip = "In " \o ToString(n) \o " days"

\* C3 witness: a date that lies less than a day ahead of the instant, whose
\* truncated difference is 0, labelled "Today".
C3_Witness ==
    /\ call.fn = "generateTooltip"
    /\ parseDate(call.arg).valid
    /\ NowTicks(call.now) < DateTicks(parseDate(call.arg))
    /\ call.tooltip = "Today"

(***************************************************************************)
(* The settings tab on its own: every onChange handler, from the default   *)
(* settings, on an empty vault with no editor open.                        *)
(***************************************************************************)
NextSettings ==
    \/ \E value \in BOOLEAN : ToggleInline(value)
    \/ \E value \in BOOLEAN : ToggleFilenames(value)
    \/ \E value \in FieldTexts : EditRecentDays(value)
    \/ \E value \in FieldTexts : EditIntermediateDays(value)
    \/ \E key \in ColorKeys, value \in Palette : PickColor(key, value)
    \/ SaveDataResolved
    \/ SaveDataRejected

SpecSettings == Init /\ [][NextSettings]_vars

\* C6: after any sequence of edits of the two period fields, the stored
\* settings satisfy intermediateDays > recentDays.
C6_PeriodsOrdered == settings.intermediateDays > settings.recentDays

(***************************************************************************)
(* Filename mode on its own: rename events on vault listings whose paths   *)
(* hold no, one or two dates, while the clock runs.                        *)
(***************************************************************************)
StylePaths ==
    { <<"n", "o", "t", "e", "s", ".", "m", "d">>,
      DateText(1, 2024, 3, 16),
      DateText(3, 2024, 2, 1) \o <<" ">> \o DateText(1, 2024, 3, 29),
      DateText(1, 2024, 3, 29) \o <<" ">> \o DateText(1, 2024, 1, 1),
      DateText(2, 2024, 2, 30) \o <<"-">> \o DateText(4, 2024, 3, 29) }

\* Listings of no file, of one file, and of two files the second of which
\* holds two dates.
StyleVaults ==
    {<<>>} \cup {<<p>> : p \in StylePaths}
           \cup {<<p, q>> :
                    p \in { <<"n", "o", "t", "e", "s", ".", "m", "d">>,
                            DateText(1, 2024, 3, 16) },
                    q \in { DateText(3, 2024, 2, 1) \o <<" ">> \o DateText(1, 2024, 3, 29),
                            DateText(2, 2024, 2, 30) \o <<"-">> \o DateText(4, 2024, 3, 29) }}

NextFiles ==
    \/ \E fs \in StyleVaults : Rename(fs)
    \/ \E value \in BOOLEAN : ToggleFilenames(value)
    \/ SaveDataResolved
    \/ SaveDataRejected
    \/ Tick

SpecFiles == Init /\ [][NextFiles]_vars

\* The date substrings of a text: every place where one of the patterns fits.
DateSubstrings(text) ==
    {m \in [pattern : Patterns, from : 0..Len(text)] :
        MatchesAt(DATE_FORMATS[m.pattern], text, m.from)}

\* The text of a date substring.
SubstringText(text, m) == Slice(text, m.from, m.from + Len(DATE_FORMATS[m.pattern]))

\* Among the first k files of a listing, those that hold a date.  The k-th
\* file, if it holds one, has rule number Cardinality(Dated(fs, k)).
Dated(fs, k) == {j \in 1..k : DateSubstrings(fs[j]) # {}}

\* Whether the last pass emitted exactly one rule for the k-th file of its
\* listing, coloured as the date substring m of its path classifies at an
\* instant of the pass.
OneRuleColouredBy(k, m) ==
    LET fs == filesPass.files
        n  == Cardinality(Dated(fs, k))
    IN  /\ Cardinality({j \in 1..Len(filesPass.result) :
                           filesPass.result[j].path = CSSescape(fs[k])}) = 1
        /\ n <= Len(filesPass.result)
        /\ filesPass.result[n].path = CSSescape(fs[k])
        /\ \E now \in {filesPass.start}
                        \cup {filesPass.reads[i] : i \in 1..Len(filesPass.reads)} :
              [bg |-> filesPass.result[n].bg, text |-> filesPass.result[n].text]
                 = getHighlightColor(SubstringText(fs[k], m), filesPass.settings, now)

\* C4 as claimed: for a file whose path holds two or more date substrings,
\* the one rule of the file is coloured by the date substring with the
\* smallest start offset.
C4_FirstByOffset ==
    (filesPass.ran /\ filesPass.settings.highlightFilenames)
    => \A k \in 1..Len(filesPass.files) :
          LET subs == DateSubstrings(filesPass.files[k])
          IN  Cardinality(subs) >= 2
              => OneRuleColouredBy(k, CHOOSE m \in subs : \A o \in subs : m.from <= o.from)

\* C4 as amended: the one rule of the file is coloured by the leftmost date
\* substring of the earliest-declared pattern that fits anywhere in the path.
C4_FirstByPattern ==
    (filesPass.ran /\ filesPass.settings.highlightFilenames)
    => \A k \in 1..Len(filesPass.files) :
          LET subs == DateSubstrings(filesPass.files[k])
          IN  Cardinality(subs) >= 2
              => OneRuleColouredBy(k,
                    CHOOSE m \in subs : \A o \in subs :
                        \/ m.pattern < o.pattern
                        \/ (m.pattern = o.pattern /\ m.from <= o.from))

\* C4 witness: a path whose leftmost date (DD-MM-YYYY, Old) comes before a
\* date of an earlier-declared pattern (YYYY-MM-DD, Recent) has its rule, in
\* the Recent colour.
C4_Witness ==
    /\ filesPass.ran /\ filesPass.settings.highlightFilenames
    /\ filesPass.files
          = <<DateText(3, 2024, 2, 1) \o <<" ">> \o DateText(1, 2024, 3, 29)>>
    /\ Len(styleRules) = 1
    /\ styleRules[1].bg = settings.recentColor

(***************************************************************************)
(* Content mode on its own: editors opened, edited and scrolled under the  *)
(* default settings, while the clock runs.                                 *)
(***************************************************************************)
ContentPieces ==
    { <<>>,
      DateText(1, 2024, 3, 16),            \* 14 days before the epoch
      DateText(2, 2024, 3, 29) \o <<" ">> }

ContentDocs == {a \o b : a \in ContentPieces, b \in ContentPieces}

NextContent ==
    \/ \E d \in ContentDocs : \E ranges \in Viewports(d) : OpenEditor(d, ranges)
    \/ \E d \in ContentDocs : \E ranges \in Viewports(d) : DocChange(d, ranges)
    \/ \E ranges \in Viewports(doc) : ViewportChange(ranges)
    \/ Tick

SpecContent == Init /\ [][NextContent]_vars

\* The text a decoration of the last content pass covers.
DecoratedText(deco) == Slice(contentPass.doc, deco.from, deco.to)

\* C7: within one buildDecorations pass every colour and every tooltip is
\* derived from the same instant: there is one instant from which all the
\* decorations of the pass follow.
C7_OneInstant ==
    (contentPass.ran /\ contentPass.status = "ok")
    => \E now \in 0..MaxClock :
          \A i \in 1..Len(contentPass.result) :
             LET deco   == contentPass.result[i]
                 colors == getHighlightColor(DecoratedText(deco), contentPass.settings, now)
             IN  /\ deco.bg = colors.bg
                 /\ deco.text = colors.text
                 /\ deco.title = generateTooltip(DecoratedText(deco), now)

\* C8: no buildDecorations pass ends with an exception.
C8_NoAbort == contentPass.ran => contentPass.status = "ok"

\* Whether a content pass ran at one instant: every clock read it made
\* returned the instant at which it started.
AtOneInstant(p) == \A i \in 1..Len(p.reads) : p.reads[i] = p.start

\* C9: a buildDecorations call with the document, visible ranges, settings
\* and instant of the call before it has the same outcome.
C9_Idempotent ==
    [][ (/\ contentPass.ran /\ contentPass'.ran
         /\ contentPass'.doc = contentPass.doc
         /\ contentPass'.ranges = contentPass.ranges
         /\ contentPass'.settings = contentPass.settings
         /\ contentPass'.start = contentPass.start
         /\ AtOneInstant(contentPass) /\ AtOneInstant(contentPass'))
        => (/\ contentPass'.status = contentPass.status
            /\ contentPass'.result = contentPass.result) ]_vars

(***************************************************************************)
(* Date extraction on its own: findDatesInText and a content pass applied  *)
(* to a text (call.arg) made of dates of the four shapes and of fragments  *)
(* of dates, side by side or a space apart.                                *)
(***************************************************************************)
FindPieces ==
    { <<>>,
      DateText(1, 2024, 3, 16),
      DateText(2, 2024, 3, 29),
      DateText(3, 2024, 3, 31),
      DateText(4, 2024, 2, 30),
      <<"-", "0", "5", "-", "2", "0", "2", "5">>,
      <<"1", "2", "-">>,
      <<"/", "1", "2", "/", "2", "0", "2", "4">>,
      <<".", "0", "3", ".", "3", "0">> }

FindTexts ==
    {a \o g \o b : a \in FindPieces, g \in {<<>>, <<" ">>}, b \in FindPieces}

InitFind ==
    /\ settings = DEFAULT_SETTINGS
    /\ clock = 0
    /\ lastIndex = ZeroIndex
    /\ doc = <<>>
    /\ visibleRanges = <<>>
    /\ decorations = <<>>
    /\ plugin = "none"
    /\ files = <<>>
    /\ styleRules = <<>>
    /\ call \in {[NoCall EXCEPT !.arg = text] : text \in FindTexts}
    /\ contentPass = NoPass
    /\ filesPass = NoPass
    /\ saveData = NoSave

\* findDatesInText(call.arg); each text.match leaves lastIndex at 0.
CallFindDatesInText ==
    /\ call.fn = "none"
    /\ call' = [call EXCEPT !.fn = "findDatesInText",
                            !.matches = findMatches(call.arg),
                            !.dates = findDatesInText(call.arg)]
    /\ lastIndex' = ZeroIndex
    /\ UNCHANGED <<settings, clock, doc, visibleRanges, decorations, plugin,
                   files, styleRules, contentPass, filesPass, saveData>>

NextFind ==
    \/ CallFindDatesInText
    \/ (plugin = "none" /\ OpenEditor(call.arg, <<[from |-> 0, to |-> Len(call.arg)]>>))

SpecFind == InitFind /\ [][NextFind]_vars

\* Whether two character ranges share a character.
Overlap(a, b) == a.from < b.to /\ b.from < a.to

\* The pattern whose shape a matched text has.
ShapeOf(text) == CHOOSE r \in Patterns : MatchesAt(DATE_FORMATS[r], text, 0)

\* C10 as claimed: no two matches reported for a text, of the same or of
\* different patterns, cover overlapping character ranges.
C10_NoOverlap ==
    /\ \A i, j \in 1..Len(call.matches) :
          i # j => ~Overlap(call.matches[i], call.matches[j])
    /\ \A i, j \in 1..Len(contentPass.result) :
          i # j => ~Overlap(contentPass.result[i], contentPass.result[j])

\* C10 as amended: no two matches of the same pattern overlap.
C10_NoOverlapWithinPattern ==
    /\ \A i, j \in 1..Len(call.matches) :
          (i # j /\ call.matches[i].pattern = call.matches[j].pattern)
          => ~Overlap(call.matches[i], call.matches[j])
    /\ \A i, j \in 1..Len(contentPass.result) :
          (i # j /\ ShapeOf(DecoratedText(contentPass.result[i]))
                       = ShapeOf(DecoratedText(contentPass.result[j])))
          => ~Overlap(contentPass.result[i], contentPass.result[j])

\* C10 witness: findDatesInText has reported a match of DD-MM-YYYY in a text
\* where a second place fits that pattern, overlapping the match, and has not
\* reported that place.
C10_Witness ==
    /\ call.fn = "findDatesInText"
    /\ \E i \in 1..Len(call.matches) : \E m \in DateSubstrings(call.arg) :
          /\ call.matches[i].pattern = 3 /\ m.pattern = 3
          /\ m.from # call.matches[i].from
          /\ Overlap(call.matches[i], [from |-> m.from, to |-> m.from + 10])
          /\ \A j \in 1..Len(call.matches) :
                ~(call.matches[j].pattern = 3 /\ call.matches[j].from = m.from)

(***************************************************************************)
(* The two toggles: buildDecorations and updateFileStyles applied, under   *)
(* stored settings with either toggle on or off, to documents of one and   *)
(* two dates shown whole, in part and in two ranges, and to listings of    *)
(* plain and dated paths.                                                  *)
(***************************************************************************)
DisabledDocs ==
    { DateText(1, 2024, 3, 16),
      DateText(4, 2024, 2, 30),            \* not a date of the calendar
      DateText(2, 2024, 3, 29) \o <<" ">> \o DateText(1, 2024, 3, 16) }

DisabledVaults ==
    { <<>>,
      <<DateText(4, 2024, 2, 30)>>,
      << <<"n", "o", "t", "e", "s", ".", "m", "d">>,
         DateText(3, 2024, 2, 1) \o <<" ">> \o DateText(1, 2024, 3, 29) >> }

\* The state after onload with the two toggles as data.json has them.
InitDisabled ==
    /\ settings \in {[DEFAULT_SETTINGS EXCEPT !.highlightInlineContent = inline,
                                              !.highlightFilenames = filenames] :
                        inline \in BOOLEAN, filenames \in BOOLEAN}
    /\ clock = 0
    /\ lastIndex = ZeroIndex
    /\ doc = <<>>
    /\ visibleRanges = <<>>
    /\ decorations = <<>>
    /\ plugin = "none"
    /\ files = <<>>
    /\ styleRules = <<>>
    /\ call = NoCall
    /\ contentPass = NoPass
    /\ filesPass = [NoPass EXCEPT !.ran = TRUE, !.settings = settings]
    /\ saveData = NoSave

NextDisabled ==
    \/ \E d \in DisabledDocs : \E ranges \in Viewports(d) :
          plugin # "active" /\ OpenEditor(d, ranges)
    \/ \E d \in DisabledDocs : \E ranges \in Viewports(d) : DocChange(d, ranges)
    \/ \E ranges \in Viewports(doc) : ViewportChange(ranges)
    \/ \E fs \in DisabledVaults : Rename(fs)

SpecDisabled == InitDisabled /\ [][NextDisabled]_vars

\* C5: a buildDecorations call with highlightInlineContent off returns the
\* empty decoration set, and an updateFileStyles call with highlightFilenames
\* off leaves the style sheet empty, neither running a pattern nor reading the
\* clock.
C5_DisabledIsEmpty ==
    /\ (contentPass.ran /\ ~contentPass.settings.highlightInlineContent)
       => /\ contentPass.status = "ok"
          /\ contentPass.result = <<>>
          /\ contentPass.scans = 0
          /\ contentPass.reads = <<>>
    /\ (filesPass.ran /\ ~filesPass.settings.highlightFilenames)
       => /\ styleRules = <<>>
          /\ filesPass.scans = 0
          /\ filesPass.reads = <<>>

\* C5 witness: with both toggles off, a document that holds two dates, one
\* in each of its two visible ranges, has been through buildDecorations and a
\* listing that holds a dated path through updateFileStyles.
C5_Witness ==
    /\ contentPass.ran /\ ~contentPass.settings.highlightInlineContent
    /\ Len(contentPass.ranges) = 2
    /\ \A k \in 1..2 :
          DateSubstrings(Slice(contentPass.doc, contentPass.ranges[k].from,
                               contentPass.ranges[k].to)) # {}
    /\ filesPass.ran /\ ~filesPass.settings.highlightFilenames
    /\ \E k \in 1..Len(filesPass.files) : DateSubstrings(filesPass.files[k]) # {}
    /\ decorations = <<>> /\ styleRules = <<>>

(***************************************************************************)
(* The settings tab with an editor open, on an empty vault: every onChange *)
(* handler calls saveSettings, which ends, once saveData has resolved,     *)
(* with the empty transaction refreshActiveEditors dispatches to the       *)
(* editor.                                                                 *)
(***************************************************************************)
RefreshDocs ==
    { DateText(1, 2024, 3, 16),
      DateText(4, 2024, 2, 30) }           \* not a date of the calendar

NextRefresh ==
    \/ \E value \in BOOLEAN : ToggleInline(value)
    \/ \E value \in Palette : PickColor("recentColor", value)
    \/ \E d \in RefreshDocs : \E ranges \in Viewports(d) : OpenEditor(d, ranges)
    \/ \E d \in RefreshDocs : \E ranges \in Viewports(d) : DocChange(d, ranges)
    \/ \E ranges \in Viewports(doc) : ViewportChange(ranges)
    \/ SaveDataResolved
    \/ SaveDataRejected

SpecRefresh == Init /\ [][NextRefresh]_vars

\* C11: after every saveSettings that has run to its end, the decoration set
\* of an open editor whose plugin is running equals what buildDecorations
\* produces for that editor under the saved settings at that instant (empty
\* once highlightInlineContent is off), with no document edit or viewport
\* change in between.
C11_RerunOnSave ==
    [][ (/\ saveData'.pending < saveData.pending
         /\ saveData'.settled = "resolved"
         /\ plugin' = "active")
        => \A d \in {doc'} : \A ranges \in {visibleRanges'} :
           \A s \in {settings'} : \A li \in {lastIndex'} : \A now \in {clock'} :
           \A rebuilt \in {buildDecorations(d, ranges, s, li, now, {})} :
              rebuilt.status = "ok" => decorations' = rebuilt.decos ]_vars

====
